---- MODULE Spec2Model ----
(***************************************************************************)
(* Model of SceneManager (Source/SceneManager.cpp): the texture registry,  *)
(* the material registry, the shader-uniform writes and the fixed render   *)
(* pass; and of the frame preparation of ViewManager                       *)
(* (Source/ViewManager.cpp).                                               *)
(*                                                                         *)
(* Conventions                                                             *)
(*  - C++ arrays and vectors are 0-based, TLA+ sequences are 1-based: the  *)
(*    entry the code calls m_textureIDs[i] is m_textureIDs[i + 1] here.    *)
(*  - bool results are the integers 0 (false) and 1 (true), as            *)
(*    setIntValue(g_UseTextureName, false) passes them to the shader.      *)
(*  - float arithmetic is modelled exactly over the integers.  Rotation    *)
(*    angles are multiples of 90 degrees, whose sine and cosine are        *)
(*    integers.  The literal constants of the scene are written in         *)
(*    hundredths (transforms, UV scales) and tenths (colours, materials).  *)
(*  - the uniform sink (ShaderManager) and the GL texture objects are      *)
(*    external; they are modelled by what the calls made on them do.       *)
(***************************************************************************)
EXTENDS Integers, Sequences, FiniteSets, TLC

VARIABLES
    m_pShaderManager,   \* "NULL" or "valid": the pointer given to the constructor
    m_textureIDs,       \* the texture array: sequence of [ID, tag]
    m_loadedTextures,   \* number of registered textures
    m_objectMaterials,  \* the material vector: sequence of OBJECT_MATERIAL
    uniforms,           \* the sink: uniform name -> last value written
    glTextures,         \* GL texture names generated and not deleted
    glActive,           \* the active texture unit (glActiveTexture)
    glUnits,            \* texture unit -> name bound to GL_TEXTURE_2D (0: none)
    heapImages,         \* decoded pixel buffers not yet released
    crashed,            \* TRUE once a null sink has been dereferenced
    files,              \* decode result of each texture file of the scene
    renderPos,          \* number of object routines RenderScene has run
    lastCall,           \* the last call: operation, arguments, result
    written,            \* uniform names written by the running routine
    lastDraw,           \* the last draw call and what it observed
    prevDraw,           \* the draw call before it
    history,            \* tags of the loads that returned true, in call order
    frame,              \* meshes drawn by the running (or last) RenderScene
    viewSink,           \* ViewManager's m_pShaderManager: "NULL" or "valid"
    g_pCamera,          \* the camera: Position, Front, Up, Zoom
    bOrthographicProjection,  \* 0 perspective, 1 orthographic
    gDeltaTime,         \* time between the current frame and the last
    gLastFrame,         \* time of the last frame
    shouldClose,        \* the close flag of the window
    viewUniforms        \* the view, projection and viewPosition uniforms

vars == << m_pShaderManager, m_textureIDs, m_loadedTextures, m_objectMaterials,
           uniforms, glTextures, glActive, glUnits, heapImages, crashed,
           files, renderPos, lastCall, written, lastDraw, prevDraw, history,
           frame, viewSink, g_pCamera, bOrthographicProjection, gDeltaTime,
           gLastFrame, shouldClose, viewUniforms >>

----------------------------------------------------------------------------
(* Bounds of the model *)

\* registry entries a run of the registry specification may create
MaxLoaded == 2
\* loads with an unsupported channel count a run may make
MaxBadLoads == 1
\* materials in the registry the material specification starts from
MaxMaterials == 2
\* PrepareScene calls in a run of the scene specification
MaxPrepares == 1
\* registry entries beyond the texture units a long run of loads may create
MaxOverflow == 1
\* DestroyGLTextures is called while fewer texture names than this are
\* allocated and not in the registry
MaxDestroys == 1
\* the time of the last frame, in tenths of a second
MaxTime == 2

----------------------------------------------------------------------------
(* Uniform names *)

g_ModelName == "model"
g_ColorValueName == "objectColor"
g_TextureValueName == "objectTexture"
g_UseTextureName == "bUseTexture"
g_UseLightingName == "bUseLighting"

MaterialUniforms ==
    { "material.ambientColor", "material.ambientStrength",
      "material.diffuseColor", "material.specularColor",
      "material.shininess" }

LightFields ==
    << "position", "ambientColor", "diffuseColor", "specularColor",
       "focalStrength", "specularIntensity" >>

LightUniform(i, f) ==
    (IF i = 0 THEN "lightSources[0]." ELSE "lightSources[1].") \o f

LightUniforms ==
    { LightUniform(i, LightFields[k]) : i \in {0, 1}, k \in 1..6 }

UniformNames ==
    { g_ModelName, g_ColorValueName, g_TextureValueName, g_UseTextureName,
      g_UseLightingName, "UVscale" } \cup MaterialUniforms \cup LightUniforms

----------------------------------------------------------------------------
(* glm: a 4x4 matrix is the tuple of its four rows; M[i][j] is the entry *)
(* of row i and column j, so that M * v is the usual matrix-vector product *)

Zero4 ==
    << <<0, 0, 0, 0>>, <<0, 0, 0, 0>>, <<0, 0, 0, 0>>, <<0, 0, 0, 0>> >>

Entry(A, B, i, j) ==
    A[i][1] * B[1][j] + A[i][2] * B[2][j] + A[i][3] * B[3][j]
    + A[i][4] * B[4][j]

Row(A, B, i) ==
    << Entry(A, B, i, 1), Entry(A, B, i, 2), Entry(A, B, i, 3),
       Entry(A, B, i, 4) >>

\* operator* of glm::mat4
MatMul(A, B) == << Row(A, B, 1), Row(A, B, 2), Row(A, B, 3), Row(A, B, 4) >>

\* glm::scale(v)
scale(v) ==
    << <<v[1], 0, 0, 0>>, <<0, v[2], 0, 0>>, <<0, 0, v[3], 0>>,
       <<0, 0, 0, 1>> >>

\* glm::translate(v)
translate(v) ==
    << <<1, 0, 0, v[1]>>, <<0, 1, 0, v[2]>>, <<0, 0, 1, v[3]>>,
       <<0, 0, 0, 1>> >>

\* cosine and sine of glm::radians(deg), deg a multiple of 90
Cos(deg) == CASE deg % 360 = 0 -> 1
              [] deg % 360 = 90 -> 0
              [] deg % 360 = 180 -> -1
              [] deg % 360 = 270 -> 0

Sin(deg) == CASE deg % 360 = 0 -> 0
              [] deg % 360 = 90 -> 1
              [] deg % 360 = 180 -> 0
              [] deg % 360 = 270 -> -1

\* glm::rotate(angle, axis) for a unit axis a:
\* c * I + (1 - c) * a * a^T + s * [a]x
rotate(deg, axis) ==
    LET c == Cos(deg)
        s == Sin(deg)
        x == axis[1]
        y == axis[2]
        z == axis[3]
    IN  << << c + (1 - c) * x * x, (1 - c) * x * y - s * z,
              (1 - c) * x * z + s * y, 0 >>,
           << (1 - c) * y * x + s * z, c + (1 - c) * y * y,
              (1 - c) * y * z - s * x, 0 >>,
           << (1 - c) * z * x - s * y, (1 - c) * z * y + s * x,
              c + (1 - c) * z * z, 0 >>,
           << 0, 0, 0, 1 >> >>

----------------------------------------------------------------------------
(* The uniform sink *)

NULL == "NULL"

\* uniforms of a linked program hold zero until they are written
ZeroUniform(n) ==
    CASE n = g_ModelName -> Zero4
      [] n = g_ColorValueName -> <<0, 0, 0, 0>>
      [] n = "UVscale" -> <<0, 0>>
      [] n \in { g_TextureValueName, g_UseTextureName, g_UseLightingName,
                 "material.ambientStrength", "material.shininess",
                 "lightSources[0].focalStrength",
                 "lightSources[0].specularIntensity",
                 "lightSources[1].focalStrength",
                 "lightSources[1].specularIntensity" } -> 0
      [] OTHER -> <<0, 0, 0>>

\* the state a shader call works on: the sink, the names written, the crash
\* flag, the SceneManager methods entered (and the meshes drawn) so far and
\* the registry lookups made so far
Shader(u, w, c) ==
    [ uniforms |-> u, written |-> w, crashed |-> c, calls |-> <<>>,
      lookups |-> <<>> ]

\* entry of a SceneManager method
enter(sh, method) ==
    IF sh.crashed THEN sh ELSE [ sh EXCEPT !.calls = Append(@, method) ]

\* a lookup of tag in a registry and what it returned
lookup(sh, registry, tag, result) ==
    [ sh EXCEPT !.lookups =
        Append(@, [ registry |-> registry, tag |-> tag, result |-> result ]) ]

\* m_pShaderManager->set...Value(name, value); a call through a null
\* pointer ends the program
setValue(sh, name, value) ==
    IF sh.crashed THEN sh
    ELSE IF m_pShaderManager = NULL
         THEN [ sh EXCEPT !.crashed = TRUE ]
         ELSE [ sh EXCEPT !.uniforms[name] = value,
                          !.written = @ \cup {name} ]

----------------------------------------------------------------------------
(* The image decoder and the GL texture objects *)

\* what stbi_load can return: 0 for a null image, else the channel count
Decodes == 0..4

\* texture units of the GL context ("There are up to 16 slots")
MaxTextureUnits == 16

\* glGenTextures(1, &id): an unused texture name
glGenTextures(names) ==
    CHOOSE n \in 1..(Cardinality(names) + 1) : n \notin names

\* the registry and the GL objects a texture call works on
TexState(ids, loaded, names, units, images, hist, ret) ==
    [ m_textureIDs |-> ids, m_loadedTextures |-> loaded, glTextures |-> names,
      glUnits |-> units, heapImages |-> images, history |-> hist, ret |-> ret ]

CurrentTex ==
    TexState(m_textureIDs, m_loadedTextures, glTextures, glUnits, heapImages,
             history, 0)

\* array[index] = value, index 0-based
ArrayPut(array, index, value) ==
    [ i \in 1..(IF index + 1 > Len(array) THEN index + 1 ELSE Len(array)) |->
        IF i = index + 1 THEN value ELSE array[i] ]

----------------------------------------------------------------------------
(* SceneManager: the texture registry *)

\* CreateGLTexture(filename, tag) for a set of channel counts that have a
\* glTexImage2D branch; image is what stbi_load returned and active the unit
\* glBindTexture acts on
CreateGLTextureFor(supported, t, active, image, tag) ==
    IF image # 0
    THEN LET textureID == glGenTextures(t.glTextures)
             generated == [ t EXCEPT !.heapImages = @ + 1,
                                     !.glTextures = @ \cup {textureID},
                                     !.glUnits[active] = textureID ]
         IN  IF image \in supported
             THEN [ generated EXCEPT
                      !.heapImages = @ - 1,
                      !.glUnits[active] = 0,
                      !.m_textureIDs =
                          ArrayPut(@, t.m_loadedTextures,
                                   [ ID |-> textureID, tag |-> tag ]),
                      !.m_loadedTextures = @ + 1,
                      !.history = Append(@, tag),
                      !.ret = 1 ]
             ELSE [ generated EXCEPT !.ret = 0 ]
    ELSE [ t EXCEPT !.ret = 0 ]

\* mutant: the RGBA branch is missing
CreateGLTextureRGBOnly(t, active, image, tag) ==
    CreateGLTextureFor({3}, t, active, image, tag)

\* mutant: every decoded image is uploaded and registered
CreateGLTextureAnyChannels(t, active, image, tag) ==
    CreateGLTextureFor(1..4, t, active, image, tag)

\* CreateGLTexture(filename, tag): RGB and RGBA images are uploaded
CreateGLTexture(t, active, image, tag) ==
    CreateGLTextureFor({3, 4}, t, active, image, tag)

\* the loop of BindGLTextures from index i on; a unit the context does not
\* have is refused by glActiveTexture and the active unit stays
RECURSIVE BindFrom(_, _, _, _, _)
BindFrom(i, ids, loaded, active, units) ==
    IF i < loaded
    THEN LET unit == IF i < MaxTextureUnits THEN i ELSE active
         IN  BindFrom(i + 1, ids, loaded, unit,
                      [ units EXCEPT ![unit] = ids[i + 1].ID ])
    ELSE [ glActive |-> active, glUnits |-> units ]

BindGLTextures(t, active) ==
    BindFrom(0, t.m_textureIDs, t.m_loadedTextures, active, t.glUnits)

\* the loop of DestroyGLTextures from index i on: glGenTextures stores a new
\* texture name in the entry
RECURSIVE DestroyFrom(_, _)
DestroyFrom(i, t) ==
    IF i < t.m_loadedTextures
    THEN LET textureID == glGenTextures(t.glTextures)
         IN  DestroyFrom(i + 1,
                 [ t EXCEPT !.glTextures = @ \cup {textureID},
                            !.m_textureIDs[i + 1].ID = textureID ])
    ELSE t

DestroyGLTextures(t) == DestroyFrom(0, t)

\* the loop of FindTextureID from index on
RECURSIVE FindTextureIDFrom(_, _)
FindTextureIDFrom(index, tag) ==
    IF index < m_loadedTextures
    THEN IF m_textureIDs[index + 1].tag = tag
         THEN m_textureIDs[index + 1].ID
         ELSE FindTextureIDFrom(index + 1, tag)
    ELSE -1

FindTextureID(tag) == FindTextureIDFrom(0, tag)

\* the loop of FindTextureSlot from index on
RECURSIVE FindTextureSlotFrom(_, _)
FindTextureSlotFrom(index, tag) ==
    IF index < m_loadedTextures
    THEN IF m_textureIDs[index + 1].tag = tag
         THEN index
         ELSE FindTextureSlotFrom(index + 1, tag)
    ELSE -1

\* mutant: the texture name is returned in place of the slot
FindTextureSlotReturnsID(tag) == FindTextureID(tag)

FindTextureSlot(tag) == FindTextureSlotFrom(0, tag)

----------------------------------------------------------------------------
(* SceneManager: the material registry *)

\* OBJECT_MATERIAL
Material(tag, ambientColor, ambientStrength, diffuseColor, specularColor, shininess) ==
    [ tag |-> tag, ambientColor |-> ambientColor,
      ambientStrength |-> ambientStrength, diffuseColor |-> diffuseColor,
      specularColor |-> specularColor, shininess |-> shininess ]

\* the five values FindMaterial copies
MaterialValues(m) ==
    << m.ambientColor, m.ambientStrength, m.diffuseColor, m.specularColor,
       m.shininess >>

\* mutant: the loop does not stop at the first match
RECURSIVE FindMaterialLastFrom(_, _, _)
FindMaterialLastFrom(index, tag, material) ==
    IF index < Len(m_objectMaterials)
    THEN IF m_objectMaterials[index + 1].tag = tag
         THEN FindMaterialLastFrom(index + 1, tag,
                [ material EXCEPT
                  !.ambientColor = m_objectMaterials[index + 1].ambientColor,
                  !.ambientStrength =
                      m_objectMaterials[index + 1].ambientStrength,
                  !.diffuseColor = m_objectMaterials[index + 1].diffuseColor,
                  !.specularColor = m_objectMaterials[index + 1].specularColor,
                  !.shininess = m_objectMaterials[index + 1].shininess ])
         ELSE FindMaterialLastFrom(index + 1, tag, material)
    ELSE material

\* the loop of FindMaterial from index on: the material after the loop
RECURSIVE FindMaterialFrom(_, _, _)
FindMaterialFrom(index, tag, material) ==
    IF index < Len(m_objectMaterials)
    THEN IF m_objectMaterials[index + 1].tag = tag
         THEN [ material EXCEPT
                  !.ambientColor = m_objectMaterials[index + 1].ambientColor,
                  !.ambientStrength =
                      m_objectMaterials[index + 1].ambientStrength,
                  !.diffuseColor = m_objectMaterials[index + 1].diffuseColor,
                  !.specularColor = m_objectMaterials[index + 1].specularColor,
                  !.shininess = m_objectMaterials[index + 1].shininess ]
         ELSE FindMaterialFrom(index + 1, tag, material)
    ELSE material

\* FindMaterial(tag, material): the result and the caller's material after it
FindMaterial(tag, material) ==
    IF Len(m_objectMaterials) = 0
    THEN [ ret |-> 0, material |-> material ]
    ELSE [ ret |-> 1, material |-> FindMaterialFrom(0, tag, material) ]

----------------------------------------------------------------------------
(* SceneManager: the shader state *)

XAxis == <<1, 0, 0>>
YAxis == <<0, 1, 0>>
ZAxis == <<0, 0, 1>>

\* mutant: the factors are multiplied in the opposite order
SetTransformationsReversed(sh, scaleXYZ, XrotationDegrees, YrotationDegrees, ZrotationDegrees, positionXYZ) ==
    LET rotationX == rotate(XrotationDegrees, XAxis)
        rotationY == rotate(YrotationDegrees, YAxis)
        rotationZ == rotate(ZrotationDegrees, ZAxis)
        translation == translate(positionXYZ)
        modelView ==
            MatMul(MatMul(MatMul(MatMul(scale(scaleXYZ), rotationZ),
                                 rotationY), rotationX), translation)
        in == enter(sh, "SetTransformations")
    IN  IF NULL # m_pShaderManager
        THEN setValue(in, g_ModelName, modelView)
        ELSE in

SetTransformations(sh, scaleXYZ, XrotationDegrees, YrotationDegrees, ZrotationDegrees, positionXYZ) ==
    LET rotationX == rotate(XrotationDegrees, XAxis)
        rotationY == rotate(YrotationDegrees, YAxis)
        rotationZ == rotate(ZrotationDegrees, ZAxis)
        translation == translate(positionXYZ)
        modelView ==
            MatMul(MatMul(MatMul(MatMul(translation, rotationX), rotationY),
                          rotationZ), scale(scaleXYZ))
        in == enter(sh, "SetTransformations")
    IN  IF NULL # m_pShaderManager
        THEN setValue(in, g_ModelName, modelView)
        ELSE in

\* mutant: the colour is published and bUseTexture is left as it was
SetShaderColorKeepsFlag(sh, redColorValue, greenColorValue, blueColorValue, alphaValue) ==
    LET currentColor ==
            << redColorValue, greenColorValue, blueColorValue, alphaValue >>
        in == enter(sh, "SetShaderColor")
    IN  IF NULL # m_pShaderManager
        THEN setValue(in, g_ColorValueName, currentColor)
        ELSE in

SetShaderColor(sh, redColorValue, greenColorValue, blueColorValue, alphaValue) ==
    LET currentColor ==
            << redColorValue, greenColorValue, blueColorValue, alphaValue >>
        in == enter(sh, "SetShaderColor")
    IN  IF NULL # m_pShaderManager
        THEN setValue(setValue(in, g_UseTextureName, 0),
                      g_ColorValueName, currentColor)
        ELSE in

\* mutant: the sampler is given the texture name found by FindTextureID
SetShaderTextureByID(sh, textureTag) ==
    LET in == enter(sh, "SetShaderTexture")
    IN  IF NULL # m_pShaderManager
        THEN LET textureID == FindTextureID(textureTag)
                 found == lookup(in, "texture", textureTag, textureID)
             IN  setValue(setValue(found, g_UseTextureName, 1),
                          g_TextureValueName, textureID)
        ELSE in

SetShaderTexture(sh, textureTag) ==
    LET in == enter(sh, "SetShaderTexture")
    IN  IF NULL # m_pShaderManager
        THEN LET textureID == FindTextureSlot(textureTag)
                 found == lookup(in, "texture", textureTag, textureID)
             IN  setValue(setValue(found, g_UseTextureName, 1),
                          g_TextureValueName, textureID)
        ELSE in

SetTextureUVScale(sh, u, v) ==
    LET in == enter(sh, "SetTextureUVScale")
    IN  IF NULL # m_pShaderManager
        THEN setValue(in, "UVscale", <<u, v>>)
        ELSE in

\* mutant: the shininess is not published
SetShaderMaterialNoShininess(sh, materialTag, local) ==
    LET in == enter(sh, "SetShaderMaterial")
    IN  IF Len(m_objectMaterials) > 0
        THEN LET found == FindMaterial(materialTag, local)
                 material == found.material
                 looked == lookup(in, "material", materialTag, found.ret)
             IN  IF found.ret = 1
                 THEN setValue(setValue(setValue(setValue(looked,
                        "material.ambientColor", material.ambientColor),
                        "material.ambientStrength", material.ambientStrength),
                        "material.diffuseColor", material.diffuseColor),
                        "material.specularColor", material.specularColor)
                 ELSE looked
        ELSE in

\* SetShaderMaterial(materialTag); local is what the local OBJECT_MATERIAL
\* holds before FindMaterial is called
SetShaderMaterial(sh, materialTag, local) ==
    LET in == enter(sh, "SetShaderMaterial")
    IN  IF Len(m_objectMaterials) > 0
        THEN LET found == FindMaterial(materialTag, local)
                 material == found.material
                 looked == lookup(in, "material", materialTag, found.ret)
             IN  IF found.ret = 1
                 THEN setValue(setValue(setValue(setValue(setValue(looked,
                        "material.ambientColor", material.ambientColor),
                        "material.ambientStrength", material.ambientStrength),
                        "material.diffuseColor", material.diffuseColor),
                        "material.specularColor", material.specularColor),
                        "material.shininess", material.shininess)
                 ELSE looked
        ELSE in

\* the values SetupSceneLights gives light i, in the order of LightFields
LightValues(i) ==
    IF i = 0
    THEN << <<30, 50, 30>>, <<6, 6, 9>>, <<4, 4, 10>>, <<10, 10, 10>>,
            320, 10 >>
    ELSE << <<30, 50, -50>>, <<3, 3, 3>>, <<10, 9, 7>>, <<10, 10, 10>>,
            160, 8 >>

RECURSIVE SetLightFrom(_, _, _)
SetLightFrom(sh, i, k) ==
    IF k > 6 THEN sh
    ELSE SetLightFrom(setValue(sh, LightUniform(i, LightFields[k]),
                               LightValues(i)[k]), i, k + 1)

SetupSceneLights(sh) ==
    LET in == enter(sh, "SetupSceneLights")
    IN  IF NULL # m_pShaderManager
        THEN SetLightFrom(SetLightFrom(setValue(in, g_UseLightingName, 1),
                                       0, 1), 1, 1)
        ELSE in

----------------------------------------------------------------------------
(* SceneManager: the scene *)

\* the CreateGLTexture calls of LoadSceneTextures, in order
SceneTextures ==
    << [ file |-> "stainless.jpg", tag |-> "stand" ],
       [ file |-> "cheese_wheel.jpg", tag |-> "mug" ],
       [ file |-> "drywall.jpg", tag |-> "screen" ],
       [ file |-> "tilesf2.jpg", tag |-> "handle" ],
       [ file |-> "stainless_end.jpg", tag |-> "base" ],
       [ file |-> "knife_handle.jpg", tag |-> "plane" ] >>

SceneFiles == { SceneTextures[k].file : k \in 1..Len(SceneTextures) }

RECURSIVE LoadFrom(_, _, _)
LoadFrom(t, active, k) ==
    IF k > Len(SceneTextures) THEN t
    ELSE LoadFrom(CreateGLTexture(t, active, files[SceneTextures[k].file],
                                  SceneTextures[k].tag), active, k + 1)

\* mutant: the textures are bound before they are loaded
LoadSceneTexturesBindFirst(t, active) ==
    LET bound == BindGLTextures(t, active)
        loaded == LoadFrom([ t EXCEPT !.glUnits = bound.glUnits ],
                           bound.glActive, 1)
    IN  [ tex |-> loaded, glActive |-> bound.glActive ]

\* LoadSceneTextures: the texture state after the six loads, and the
\* bindings BindGLTextures leaves
LoadSceneTextures(t, active) ==
    LET loaded == LoadFrom(t, active, 1)
        bound == BindGLTextures(loaded, active)
    IN  [ tex |-> [ loaded EXCEPT !.glUnits = bound.glUnits ],
          glActive |-> bound.glActive ]

mugMaterial ==
    Material("cheesy", <<1, 1, 1>>, 2, <<5, 5, 5>>, <<1, 1, 1>>, 3)
screenMaterial ==
    Material("glassy", <<4, 4, 4>>, 3, <<3, 3, 3>>, <<6, 6, 6>>, 850)
standMaterial ==
    Material("metal", <<2, 2, 2>>, 3, <<2, 2, 2>>, <<5, 5, 5>>, 220)
baseMaterial ==
    Material("shiny", <<2, 2, 2>>, 3, <<2, 2, 2>>, <<5, 5, 5>>, 220)
woodMaterial ==
    Material("wood", <<1, 1, 1>>, 2, <<3, 3, 3>>, <<1, 1, 1>>, 3)

\* mutant: the material of the monitor stand is not defined
DefineObjectMaterialsNoMetal(materials) ==
    materials \o << mugMaterial, screenMaterial, baseMaterial, woodMaterial >>

\* DefineObjectMaterials: the vector after the five push_back calls
DefineObjectMaterials(materials) ==
    materials \o << mugMaterial, screenMaterial, standMaterial, baseMaterial,
                    woodMaterial >>

\* one object routine: the shader state after its draw call and the mesh
\* drawn
Routine(object, sh, mesh) ==
    [ object |-> object, sh |-> enter(sh, mesh), mesh |-> mesh ]

RenderPlane(sh, local) ==
    Routine("Plane",
        SetTextureUVScale(SetShaderTexture(SetShaderMaterial(
            SetTransformations(sh, <<5000, 100, 5000>>, 0, 0, 0,
                               <<0, -100, 0>>),
            "wood", local), "plane"), 1000, 1000),
        "DrawPlaneMesh")

RenderMugBody(sh, local) ==
    Routine("MugBody",
        SetTextureUVScale(SetShaderMaterial(SetShaderTexture(
            SetTransformations(sh, <<100, 150, 100>>, 180, 0, 0,
                               <<300, 50, 300>>),
            "mug"), "glassy", local), 225, 225),
        "DrawTaperedCylinderMesh")

RenderMugHandle(sh, local) ==
    Routine("MugHandle",
        SetTextureUVScale(SetShaderMaterial(SetShaderTexture(
            SetTransformations(sh, <<50, 40, 50>>, 0, 0, 0,
                               <<400, -10, 325>>),
            "handle"), "glassy", local), 100, 100),
        "DrawTorusMesh")

RenderMonitorScreen(sh, local) ==
    Routine("MonitorScreen",
        SetTextureUVScale(SetShaderMaterial(SetShaderTexture(
            SetTransformations(sh, <<900, 400, 20>>, 0, 0, 0,
                               <<0, 300, 0>>),
            "screen"), "glassy", local), 100, 100),
        "DrawBoxMesh")

RenderMonitorStand(sh, local) ==
    Routine("MonitorStand",
        SetTextureUVScale(SetShaderMaterial(SetShaderTexture(
            SetTransformations(sh, <<100, 50, 150>>, 0, 0, 0,
                               <<0, 75, 0>>),
            "stand"), "metal", local), 400, 400),
        "DrawBoxMesh")

RenderMonitorBase(sh, local) ==
    Routine("MonitorBase",
        SetTextureUVScale(SetShaderMaterial(SetShaderTexture(
            SetTransformations(sh, <<125, 20, 200>>, 0, 0, 0,
                               <<0, 50, 0>>),
            "base"), "metal", local), 500, 500),
        "DrawTaperedCylinderMesh")

RenderBook1(sh, local) ==
    Routine("Book1",
        SetShaderColor(
            SetTransformations(sh, <<200, 50, 300>>, 0, 0, 0,
                               <<-600, 50, 100>>),
            5, 8, 10, 10),
        "DrawBoxMesh")

RenderBook2(sh, local) ==
    Routine("Book2",
        SetShaderColor(
            SetTransformations(sh, <<200, 50, 300>>, 0, 0, 0,
                               <<-600, 100, 100>>),
            7, 4, 1, 10),
        "DrawBoxMesh")

\* mutant: a texture is set after the colour
RenderKeyboardMixed(sh, local) ==
    Routine("Keyboard",
        SetShaderTexture(SetShaderColor(
            SetTransformations(sh, <<700, 20, 100>>, 0, 0, 0,
                               <<0, 20, 200>>),
            7, 4, 1, 10), "handle"),
        "DrawBoxMesh")

RenderKeyboard(sh, local) ==
    Routine("Keyboard",
        SetShaderColor(
            SetTransformations(sh, <<700, 20, 100>>, 0, 0, 0,
                               <<0, 20, 200>>),
            7, 4, 1, 10),
        "DrawBoxMesh")

\* mutant: the colour is not set
RenderMouseNoColor(sh, local) ==
    Routine("Mouse",
        SetTransformations(sh, <<50, 30, 80>>, 0, 0, 0, <<-300, -50, 250>>),
        "DrawSphereMesh")

RenderMouse(sh, local) ==
    Routine("Mouse",
        SetShaderColor(
            SetTransformations(sh, <<50, 30, 80>>, 0, 0, 0,
                               <<-300, -50, 250>>),
            7, 4, 1, 10),
        "DrawSphereMesh")

\* mutant: the keyboard is rendered before the mouse
RenderSceneCallSwapped(k, sh, local) ==
    CASE k = 1 -> RenderPlane(sh, local)
      [] k = 2 -> RenderMugBody(sh, local)
      [] k = 3 -> RenderMugHandle(sh, local)
      [] k = 4 -> RenderMonitorScreen(sh, local)
      [] k = 5 -> RenderMonitorBase(sh, local)
      [] k = 6 -> RenderMonitorStand(sh, local)
      [] k = 7 -> RenderKeyboard(sh, local)
      [] k = 8 -> RenderMouse(sh, local)
      [] k = 9 -> RenderBook1(sh, local)
      [] k = 10 -> RenderBook2(sh, local)

\* the k-th call of RenderScene
RenderSceneCall(k, sh, local) ==
    CASE k = 1 -> RenderPlane(sh, local)
      [] k = 2 -> RenderMugBody(sh, local)
      [] k = 3 -> RenderMugHandle(sh, local)
      [] k = 4 -> RenderMonitorScreen(sh, local)
      [] k = 5 -> RenderMonitorBase(sh, local)
      [] k = 6 -> RenderMonitorStand(sh, local)
      [] k = 7 -> RenderMouse(sh, local)
      [] k = 8 -> RenderKeyboard(sh, local)
      [] k = 9 -> RenderBook1(sh, local)
      [] k = 10 -> RenderBook2(sh, local)

RenderSceneLength == 10

----------------------------------------------------------------------------
(* Inputs of the calls *)

\* texture tags a caller passes
Tags == { "plane", "mug", "unknown" }

\* colours a caller passes to SetShaderColor, in tenths
Colors == { <<5, 8, 10, 10>>, <<7, 4, 1, 10>> }

\* material tags a caller passes
MaterialTags == { "wood", "glassy" }
LookupTags == MaterialTags \cup { "unknown" }

\* materials a registry may hold: two sets of values under either tag
MaterialPool ==
    { [ m EXCEPT !.tag = t ] :
        m \in { woodMaterial, screenMaterial }, t \in MaterialTags }

\* what an OBJECT_MATERIAL that was declared and never assigned may hold:
\* an empty tag and any values
IndeterminateMaterials ==
    { Material("", <<0, 0, 0>>, 0, <<0, 0, 0>>, <<0, 0, 0>>, 0),
      [ standMaterial EXCEPT !.tag = "" ] }

\* arguments of SetTransformations
Scales == { <<1, 1, 1>>, <<2, 1, 1>>, <<1, 2, 3>> }
Degrees == { 0, 90, 180, 270 }
Positions == { <<0, 0, 0>>, <<3, 0, 0>> }

\* arguments of SetTextureUVScale, in hundredths
UVScales == { <<100, 100>>, <<225, 225>> }

\* outcomes of decoding a scene file: a null image, an image with an
\* unsupported channel count, an RGB image
SceneDecodes == { 0, 1, 3 }

BoundedSeq(S, n) == UNION { [ 1..k -> S ] : k \in 0..n }

\* outcomes of decoding in a long run of loads: a null image, an RGB image
LoadDecodes == { 0, 3 }

\* the keys held down during a frame
KeySets ==
    SUBSET { "W", "D", "O", "P" }
    \cup { {"S"}, {"A"}, {"Q"}, {"E"}, {"ESCAPE"}, {"W", "S"} }

\* what glfwGetTime returns, in tenths of a second
Times == 0..MaxTime

----------------------------------------------------------------------------
(* ViewManager (Source/ViewManager.cpp).  Camera positions are written in  *)
(* twentieths, directions in halves and times in tenths of a second, so    *)
(* that cameraSpeed * Front is a position increment.                       *)

g_ViewName == "view"
g_ProjectionName == "projection"

WINDOW_WIDTH == 1000
WINDOW_HEIGHT == 800

\* glm::cross
Cross(a, b) ==
    << a[2] * b[3] - a[3] * b[2], a[3] * b[1] - a[1] * b[3],
       a[1] * b[2] - a[2] * b[1] >>

Sign(x) == IF x > 0 THEN 1 ELSE IF x < 0 THEN -1 ELSE 0

\* glm::normalize of a vector along one axis, in halves
Normalize(v) == << 2 * Sign(v[1]), 2 * Sign(v[2]), 2 * Sign(v[3]) >>

Plus(p, speed, direction) ==
    << p[1] + speed * direction[1], p[2] + speed * direction[2],
       p[3] + speed * direction[3] >>

\* the view matrix of the camera, given by the eye, the centre and the up
\* vector it is computed from
GetViewMatrix(camera) ==
    [ eye |-> camera.Position,
      center |-> Plus(camera.Position, 10, camera.Front),
      up |-> camera.Up ]

\* glm::ortho(-orthoWidth, orthoWidth, -orthoHeight, orthoHeight, 0.1, 100)
\* with orthoWidth 10 and orthoHeight 10 * 800 / 1000
Ortho ==
    [ kind |-> "ortho", halfWidth |-> 10,
      halfHeight |-> (10 * WINDOW_HEIGHT) \div WINDOW_WIDTH ]

\* glm::perspective(radians(Zoom), 1000 / 800, 0.1, 100)
Perspective(zoom) ==
    [ kind |-> "perspective", fovy |-> zoom, width |-> WINDOW_WIDTH,
      height |-> WINDOW_HEIGHT ]

ZeroView ==
    [ eye |-> <<0, 0, 0>>, center |-> <<0, 0, 0>>, up |-> <<0, 0, 0>> ]

\* ViewManager(pShaderManager)
ViewManagerConstructed(pShaderManager) ==
    /\ viewSink = pShaderManager
    /\ g_pCamera = [ Position |-> <<0, 100, 240>>, Front |-> <<0, -1, -4>>,
                     Up |-> <<0, 2, 0>>, Zoom |-> 80 ]
    /\ bOrthographicProjection = 0
    /\ gDeltaTime = 0
    /\ gLastFrame = 0
    /\ shouldClose = 0
    /\ viewUniforms = [ n \in { g_ViewName, g_ProjectionName, "viewPosition" }
                          |-> IF n = g_ViewName THEN ZeroView
                              ELSE IF n = g_ProjectionName THEN Perspective(0)
                              ELSE <<0, 0, 0>> ]

\* the camera, the projection flag and the close flag a frame works on
ViewState(camera, ortho, close) ==
    [ camera |-> camera, ortho |-> ortho, close |-> close ]

\* if (glfwGetKey(m_pWindow, key) == GLFW_PRESS) Position += speed * direction
Move(v, keys, key, speed, direction) ==
    IF key \in keys
    THEN [ v EXCEPT !.camera.Position = Plus(@, speed, direction) ]
    ELSE v

\* ProcessKeyboardEvents() with the keys of the set held down
ProcessKeyboardEvents(v, keys, deltaTime) ==
    LET cameraSpeed == 5 * deltaTime
        closed == IF "ESCAPE" \in keys THEN [ v EXCEPT !.close = 1 ] ELSE v
        w == Move(closed, keys, "W", cameraSpeed, closed.camera.Front)
        s == Move(w, keys, "S", -cameraSpeed, w.camera.Front)
        a == Move(s, keys, "A", -cameraSpeed,
                  Normalize(Cross(s.camera.Front, s.camera.Up)))
        d == Move(a, keys, "D", cameraSpeed,
                  Normalize(Cross(a.camera.Front, a.camera.Up)))
        q == Move(d, keys, "Q", cameraSpeed, d.camera.Up)
        e == Move(q, keys, "E", -cameraSpeed, q.camera.Up)
        p == IF "P" \in keys THEN [ e EXCEPT !.ortho = 0 ] ELSE e
    IN  IF "O" \in keys THEN [ p EXCEPT !.ortho = 1 ] ELSE p

\* PrepareSceneView() from the call of ProcessKeyboardEvents on: the state it
\* leaves and the uniforms after it
PrepareSceneView(v, u, keys, deltaTime) ==
    LET polled == ProcessKeyboardEvents(v, keys, deltaTime)
        view == GetViewMatrix(polled.camera)
        projection == IF polled.ortho = 1 THEN Ortho
                      ELSE Perspective(polled.camera.Zoom)
        after == IF polled.ortho = 1
                 THEN [ polled EXCEPT !.camera.Position = <<0, 0, 200>>,
                                      !.camera.Front = <<0, 0, -2>> ]
                 ELSE polled
    IN  [ state |-> after,
          uniforms |->
              IF NULL # viewSink
              THEN [ u EXCEPT ![g_ViewName] = view,
                              ![g_ProjectionName] = projection,
                              !["viewPosition"] = after.camera.Position ]
              ELSE u ]

----------------------------------------------------------------------------
(* The state after construction *)

Call(op, tag, args, ret, out) ==
    [ op |-> op, tag |-> tag, args |-> args, ret |-> ret, out |-> out ]

NoDraw ==
    [ object |-> "", mesh |-> "", written |-> {}, calls |-> <<>>,
      lookups |-> <<>>, useTexture |-> 0 ]

\* SceneManager(pShaderManager): the constructor stores the pointer; the
\* registry members start empty (their initialisers are in SceneManager.h)
\* and the uniforms of the program hold their defaults
Constructed ==
    /\ m_pShaderManager \in { NULL, "valid" }
    /\ m_textureIDs = << >>
    /\ m_loadedTextures = 0
    /\ uniforms = [ n \in UniformNames |-> ZeroUniform(n) ]
    /\ glTextures = {}
    /\ glActive = 0
    /\ glUnits = [ unit \in 0..(MaxTextureUnits - 1) |-> 0 ]
    /\ heapImages = 0
    /\ crashed = FALSE
    /\ renderPos = 0
    /\ lastCall = Call("SceneManager", "", << >>, 0, << >>)
    /\ written = {}
    /\ lastDraw = NoDraw
    /\ prevDraw = NoDraw
    /\ history = << >>
    /\ frame = << >>
    /\ ViewManagerConstructed(m_pShaderManager)

Init ==
    /\ Constructed
    /\ m_objectMaterials = << >>
    /\ files = [ f \in SceneFiles |-> 3 ]

\* the material registry is an input of FindMaterial and SetShaderMaterial
InitMaterial ==
    /\ Constructed
    /\ m_objectMaterials \in
          BoundedSeq(MaterialPool, MaxMaterials)
          \cup { DefineObjectMaterials(<< >>) }
    /\ files = [ f \in SceneFiles |-> 3 ]

\* the texture files of the scene decode one way or another
InitScene ==
    /\ Constructed
    /\ m_objectMaterials = << >>
    /\ files \in [ SceneFiles -> SceneDecodes ]

----------------------------------------------------------------------------
(* The calls *)

texVars ==
    << m_textureIDs, m_loadedTextures, glTextures, glUnits, heapImages,
       history >>
sceneVars == << renderPos, lastDraw, prevDraw, frame >>
viewVars ==
    << viewSink, g_pCamera, bOrthographicProjection, gDeltaTime, gLastFrame,
       shouldClose, viewUniforms >>
fixedVars == << m_pShaderManager, files, viewVars >>

\* no call is in progress and the program runs
Idle == ~crashed /\ renderPos = 0

SetTex(t) ==
    /\ m_textureIDs' = t.m_textureIDs
    /\ m_loadedTextures' = t.m_loadedTextures
    /\ glTextures' = t.glTextures
    /\ glUnits' = t.glUnits
    /\ heapImages' = t.heapImages
    /\ history' = t.history

SetShader(sh) ==
    \E after \in {sh} :
        /\ uniforms' = after.uniforms
        /\ written' = after.written
        /\ crashed' = after.crashed

EnterShader == Shader(uniforms, {}, FALSE)

CallCreateGLTexture(image, tag) ==
    /\ Idle
    /\ \E t \in { CreateGLTexture(CurrentTex, glActive, image, tag) } :
          /\ SetTex(t)
          /\ lastCall' = Call("CreateGLTexture", tag, <<image>>, t.ret, << >>)
    /\ written' = {}
    /\ UNCHANGED << m_objectMaterials, uniforms, crashed, glActive, sceneVars,
                    fixedVars >>

CallBindGLTextures ==
    /\ Idle
    /\ \E bound \in { BindGLTextures(CurrentTex, glActive) } :
          /\ glActive' = bound.glActive
          /\ glUnits' = bound.glUnits
    /\ lastCall' = Call("BindGLTextures", "", << >>, 0, << >>)
    /\ written' = {}
    /\ UNCHANGED << m_textureIDs, m_loadedTextures, glTextures, heapImages,
                    history, m_objectMaterials, uniforms, crashed, sceneVars,
                    fixedVars >>

CallFindTextureID(tag) ==
    /\ Idle
    /\ lastCall' = Call("FindTextureID", tag, << >>, FindTextureID(tag), << >>)
    /\ written' = {}
    /\ UNCHANGED << texVars, glActive, m_objectMaterials, uniforms, crashed,
                    sceneVars, fixedVars >>

CallFindTextureSlot(tag) ==
    /\ Idle
    /\ lastCall' =
           Call("FindTextureSlot", tag, << >>, FindTextureSlot(tag), << >>)
    /\ written' = {}
    /\ UNCHANGED << texVars, glActive, m_objectMaterials, uniforms, crashed,
                    sceneVars, fixedVars >>

CallFindMaterial(tag, material) ==
    /\ Idle
    /\ \E found \in { FindMaterial(tag, material) } :
          lastCall' =
              Call("FindMaterial", tag, <<material>>, found.ret,
                   <<found.material>>)
    /\ written' = {}
    /\ UNCHANGED << texVars, glActive, m_objectMaterials, uniforms, crashed,
                    sceneVars, fixedVars >>

CallSetTransformations(scaleXYZ, X, Y, Z, positionXYZ) ==
    /\ Idle
    /\ SetShader(SetTransformations(EnterShader, scaleXYZ, X, Y, Z,
                                    positionXYZ))
    /\ lastCall' = Call("SetTransformations", "",
                        << scaleXYZ, X, Y, Z, positionXYZ >>, 0, << >>)
    /\ UNCHANGED << texVars, glActive, m_objectMaterials, sceneVars,
                    fixedVars >>

CallSetShaderColor(c) ==
    /\ Idle
    /\ SetShader(SetShaderColor(EnterShader, c[1], c[2], c[3], c[4]))
    /\ lastCall' = Call("SetShaderColor", "", c, 0, << >>)
    /\ UNCHANGED << texVars, glActive, m_objectMaterials, sceneVars,
                    fixedVars >>

CallSetShaderTexture(tag) ==
    /\ Idle
    /\ SetShader(SetShaderTexture(EnterShader, tag))
    /\ lastCall' = Call("SetShaderTexture", tag, << >>, 0, << >>)
    /\ UNCHANGED << texVars, glActive, m_objectMaterials, sceneVars,
                    fixedVars >>

CallSetTextureUVScale(u, v) ==
    /\ Idle
    /\ SetShader(SetTextureUVScale(EnterShader, u, v))
    /\ lastCall' = Call("SetTextureUVScale", "", <<u, v>>, 0, << >>)
    /\ UNCHANGED << texVars, glActive, m_objectMaterials, sceneVars,
                    fixedVars >>

CallSetShaderMaterial(tag, local) ==
    /\ Idle
    /\ SetShader(SetShaderMaterial(EnterShader, tag, local))
    /\ lastCall' = Call("SetShaderMaterial", tag, <<local>>, 0, << >>)
    /\ UNCHANGED << texVars, glActive, m_objectMaterials, sceneVars,
                    fixedVars >>

CallDestroyGLTextures ==
    /\ Idle
    /\ \E t \in { DestroyGLTextures(CurrentTex) } : SetTex(t)
    /\ lastCall' = Call("DestroyGLTextures", "", << >>, 0, << >>)
    /\ written' = {}
    /\ UNCHANGED << m_objectMaterials, uniforms, crashed, glActive, sceneVars,
                    fixedVars >>

\* ~SceneManager(): the pointer is cleared and the meshes are deleted
Destructor ==
    /\ Idle
    /\ m_pShaderManager' = NULL
    /\ lastCall' = Call("~SceneManager", "", << >>, 0, << >>)
    /\ written' = {}
    /\ UNCHANGED << texVars, glActive, m_objectMaterials, uniforms, crashed,
                    sceneVars, files, viewVars >>

\* PrepareSceneView() with the keys of the set held down, at time currentFrame
CallPrepareSceneView(keys, currentFrame) ==
    /\ gDeltaTime' = currentFrame - gLastFrame
    /\ gLastFrame' = currentFrame
    /\ \E r \in { PrepareSceneView(
                      ViewState(g_pCamera, bOrthographicProjection,
                                shouldClose),
                      viewUniforms, keys, currentFrame - gLastFrame) } :
          /\ g_pCamera' = r.state.camera
          /\ bOrthographicProjection' = r.state.ortho
          /\ shouldClose' = r.state.close
          /\ viewUniforms' = r.uniforms
    /\ lastCall' = Call("PrepareSceneView", "", << keys, currentFrame >>, 0,
                        << >>)
    /\ UNCHANGED << texVars, glActive, m_objectMaterials, uniforms, crashed,
                    written, sceneVars, m_pShaderManager, files, viewSink >>

\* PrepareScene: LoadSceneTextures, SetupSceneLights, DefineObjectMaterials
\* (the meshes it then loads belong to ShapeMeshes)
PrepareScene ==
    /\ Idle
    /\ \E loaded \in { LoadSceneTextures(CurrentTex, glActive) } :
          /\ SetTex(loaded.tex)
          /\ glActive' = loaded.glActive
    /\ SetShader(SetupSceneLights(EnterShader))
    /\ m_objectMaterials' = DefineObjectMaterials(m_objectMaterials)
    /\ lastCall' = Call("PrepareScene", "", << >>, 0, << >>)
    /\ UNCHANGED << sceneVars, fixedVars >>

\* the k-th object routine of RenderScene, up to and including its draw call
RenderStep(k) ==
    /\ ~crashed
    /\ renderPos = k - 1
    /\ \E local \in IndeterminateMaterials :
          \E r \in { RenderSceneCall(k, EnterShader, local) } :
              /\ SetShader(r.sh)
              /\ IF r.sh.crashed
                 THEN UNCHANGED sceneVars
                 ELSE /\ lastDraw' =
                            [ object |-> r.object, mesh |-> r.mesh,
                              written |-> r.sh.written, calls |-> r.sh.calls,
                              lookups |-> r.sh.lookups,
                              useTexture |-> r.sh.uniforms[g_UseTextureName] ]
                      /\ prevDraw' = lastDraw
                      /\ frame' = IF k = 1 THEN << r.mesh >>
                                  ELSE Append(frame, r.mesh)
                      /\ renderPos' = k % RenderSceneLength
              /\ lastCall' = Call("RenderScene", r.object, <<k>>, 0, << >>)
    /\ UNCHANGED << texVars, glActive, m_objectMaterials, fixedVars >>

StepRenderPlane == RenderStep(1)
StepRenderMugBody == RenderStep(2)
StepRenderMugHandle == RenderStep(3)
StepRenderMonitorScreen == RenderStep(4)
StepRenderMonitorBase == RenderStep(5)
StepRenderMonitorStand == RenderStep(6)
StepRenderMouse == RenderStep(7)
StepRenderKeyboard == RenderStep(8)
StepRenderBook1 == RenderStep(9)
StepRenderBook2 == RenderStep(10)

----------------------------------------------------------------------------
(* Specifications *)

\* a load the bounds of a run allow
LoadAllowed(image) ==
    /\ image \in {3, 4} => m_loadedTextures < MaxLoaded
    /\ image \in {1, 2} => heapImages < MaxBadLoads

\* the texture registry and the colour and texture uniforms
Next ==
    \/ \E image \in Decodes, tag \in Tags :
          LoadAllowed(image) /\ CallCreateGLTexture(image, tag)
    \/ \E tag \in Tags : CallFindTextureID(tag)
    \/ \E tag \in Tags : CallFindTextureSlot(tag)
    \/ \E c \in Colors : CallSetShaderColor(c)
    \/ \E tag \in Tags : CallSetShaderTexture(tag)

Spec == Init /\ [][Next]_vars

\* the material registry, the material uniforms and the UV scale
NextMaterial ==
    \/ \E tag \in LookupTags, material \in IndeterminateMaterials :
          CallFindMaterial(tag, material)
    \/ \E tag \in LookupTags, local \in IndeterminateMaterials :
          CallSetShaderMaterial(tag, local)
    \/ \E uv \in UVScales : CallSetTextureUVScale(uv[1], uv[2])

SpecMaterial == InitMaterial /\ [][NextMaterial]_vars

\* the model matrix
NextTransform ==
    \E scaleXYZ \in Scales, X \in Degrees, Y \in Degrees, Z \in Degrees,
       positionXYZ \in Positions :
        CallSetTransformations(scaleXYZ, X, Y, Z, positionXYZ)

SpecTransform == Init /\ [][NextTransform]_vars

\* scene setup and the render pass
NextScene ==
    \/ Len(m_objectMaterials) < 5 * MaxPrepares /\ PrepareScene
    \/ CallBindGLTextures
    \/ StepRenderPlane
    \/ StepRenderMugBody
    \/ StepRenderMugHandle
    \/ StepRenderMonitorScreen
    \/ StepRenderMonitorBase
    \/ StepRenderMonitorStand
    \/ StepRenderMouse
    \/ StepRenderKeyboard
    \/ StepRenderBook1
    \/ StepRenderBook2

SpecScene == InitScene /\ [][NextScene]_vars

\* the SceneManager has not been destroyed
Alive == lastCall.op # "~SceneManager"

\* long runs of loads, and the teardown of the registry
NextLoads ==
    \/ \E image \in LoadDecodes :
          /\ Alive
          /\ m_loadedTextures < MaxTextureUnits + MaxOverflow
          /\ CallCreateGLTexture(image, "plane")
    \/ Alive /\ CallBindGLTextures
    \/ \E tag \in { "plane", "unknown" } : Alive /\ CallFindTextureSlot(tag)
    \/ /\ Alive
       /\ Cardinality(glTextures) < m_loadedTextures + MaxDestroys
       /\ CallDestroyGLTextures
    \/ Alive /\ Destructor

SpecLoads == Init /\ [][NextLoads]_vars

\* the frames of the view
NextView ==
    \E keys \in KeySets, currentFrame \in Times :
        /\ currentFrame \in gLastFrame..(gLastFrame + 1)
        /\ CallPrepareSceneView(keys, currentFrame)

SpecView == Init /\ [][NextView]_vars

----------------------------------------------------------------------------
(* Properties of the texture registry (Spec) *)

\* the step is a call of op
Called(op) == lastCall'.op = op

\* the slot a tag was given by the first load that registered it, or -1
RECURSIVE FirstSlot(_, _, _)
FirstSlot(hist, tag, i) ==
    IF i > Len(hist) THEN -1
    ELSE IF hist[i] = tag THEN i - 1
    ELSE FirstSlot(hist, tag, i + 1)

\* C1: a load whose image has 3 or 4 channels returns true and appends one
\* entry, with the tag of the call, at the slot equal to the number of loads
\* that returned true before it; the entries before it stay as they were, so
\* the slots are distinct, in insertion order, and start at 0
C1_LoadAppends ==
    [][ (Called("CreateGLTexture") /\ lastCall'.args[1] \in {3, 4})
        => /\ lastCall'.ret = 1
           /\ m_loadedTextures' = Len(history) + 1
           /\ Len(m_textureIDs') = Len(m_textureIDs) + 1
           /\ m_textureIDs'[Len(history) + 1].tag = lastCall'.tag
           /\ \A i \in 1..Len(history) :
                 /\ m_textureIDs'[i] = m_textureIDs[i]
                 /\ m_textureIDs'[i].tag = history[i] ]_vars

C1_Witness ==
    /\ lastCall.op = "CreateGLTexture"
    /\ lastCall.args = <<4>>
    /\ lastCall.ret = 1
    /\ m_loadedTextures = 2
    /\ m_textureIDs[2].tag = lastCall.tag
    /\ heapImages = 1

\* C2: a load whose image is null or has a channel count other than 3 and 4
\* returns false and leaves the entry count and every entry as they were
C2_FailedLoadKeepsRegistry ==
    [][ (Called("CreateGLTexture") /\ lastCall'.args[1] \notin {3, 4})
        => /\ lastCall'.ret = 0
           /\ m_loadedTextures' = m_loadedTextures
           /\ m_textureIDs' = m_textureIDs ]_vars

C2_Witness ==
    /\ lastCall.op = "CreateGLTexture"
    /\ lastCall.args = <<1>>
    /\ lastCall.ret = 0
    /\ m_loadedTextures = 2

\* C3: FindTextureSlot(tag) returns the slot tag was given when it was
\* registered (the first one, when it was registered more than once), -1 for
\* a tag that was never registered, and leaves the registry as it was
C3_FindTextureSlot ==
    [][ Called("FindTextureSlot")
        => /\ lastCall'.ret = FirstSlot(history, lastCall'.tag, 1)
           /\ UNCHANGED texVars ]_vars

C3_Witness ==
    /\ lastCall.op = "FindTextureSlot"
    /\ lastCall.ret = 1
    /\ history[2] = lastCall.tag
    /\ history[1] # lastCall.tag
    /\ heapImages = 1

\* C5: with a shader manager, SetShaderTexture(tag) writes 1 to bUseTexture
\* and to objectTexture the slot tag was registered at, or -1; after loading
\* "plane" then "mug", "mug" publishes 1 and "unknown" publishes -1
C5_SetShaderTexture ==
    [][ (Called("SetShaderTexture") /\ m_pShaderManager # NULL)
        => /\ uniforms'[g_UseTextureName] = 1
           /\ uniforms'[g_TextureValueName]
                = FirstSlot(history, lastCall'.tag, 1)
           /\ history = << "plane", "mug" >>
                => uniforms'[g_TextureValueName]
                     = CASE lastCall'.tag = "plane" -> 0
                         [] lastCall'.tag = "mug" -> 1
                         [] lastCall'.tag = "unknown" -> -1 ]_vars

C5_Witness ==
    /\ lastCall.op = "SetShaderTexture"
    /\ lastCall.tag = "mug"
    /\ history = << "plane", "mug" >>
    /\ heapImages = 1
    /\ uniforms[g_TextureValueName] = 1
    /\ uniforms[g_UseTextureName] = 1

\* C6: with a shader manager, SetShaderTexture leaves bUseTexture at 1,
\* SetShaderColor leaves it at 0 and objectColor at its arguments, and no
\* other call changes either: the flag tells which of the two came last
C6_LastWriteWins ==
    [][ m_pShaderManager # NULL
        => CASE Called("SetShaderTexture") ->
                  uniforms'[g_UseTextureName] = 1
             [] Called("SetShaderColor") ->
                  /\ uniforms'[g_UseTextureName] = 0
                  /\ uniforms'[g_ColorValueName] = lastCall'.args
             [] OTHER ->
                  /\ uniforms'[g_UseTextureName] = uniforms[g_UseTextureName]
                  /\ uniforms'[g_ColorValueName]
                       = uniforms[g_ColorValueName] ]_vars

\* SetShaderTexture has run after SetShaderColor
C6_Witness ==
    /\ lastCall.op = "SetShaderTexture"
    /\ uniforms[g_ColorValueName] = <<5, 8, 10, 10>>
    /\ uniforms[g_UseTextureName] = 1

----------------------------------------------------------------------------
(* Properties of the material registry (SpecMaterial) *)

\* a material of the registry carries the tag
Defined(tag) ==
    \E i \in 1..Len(m_objectMaterials) : m_objectMaterials[i].tag = tag

\* the earliest material that carries the tag
FirstDefined(tag) ==
    m_objectMaterials[
        CHOOSE i \in 1..Len(m_objectMaterials) :
            /\ m_objectMaterials[i].tag = tag
            /\ \A j \in 1..(i - 1) : m_objectMaterials[j].tag # tag ]

\* C4: FindMaterial returns false when no material is defined; when a
\* defined material carries the tag it returns true and the output holds the
\* five values of the earliest material with that tag
C4_FindMaterial ==
    lastCall.op = "FindMaterial"
    => /\ Len(m_objectMaterials) = 0 => lastCall.ret = 0
       /\ Defined(lastCall.tag)
            => /\ lastCall.ret = 1
               /\ MaterialValues(lastCall.out[1])
                    = MaterialValues(FirstDefined(lastCall.tag))

\* two materials with the same tag and different values, the first found
C4_Witness ==
    /\ lastCall.op = "FindMaterial"
    /\ Len(m_objectMaterials) = 2
    /\ m_objectMaterials[1].tag = lastCall.tag
    /\ m_objectMaterials[2].tag = lastCall.tag
    /\ MaterialValues(m_objectMaterials[1])
         # MaterialValues(m_objectMaterials[2])
    /\ MaterialValues(lastCall.out[1]) = MaterialValues(m_objectMaterials[1])

\* C8: SetShaderMaterial writes nothing when no material is defined; with
\* a shader manager and a defined material that carries the tag it writes
\* the five material uniforms, with the values of that material, and no other
C8_SetShaderMaterial ==
    [][ Called("SetShaderMaterial")
        => /\ Len(m_objectMaterials) = 0
                => written' = {} /\ uniforms' = uniforms /\ ~crashed'
           /\ (m_pShaderManager # NULL /\ Defined(lastCall'.tag))
                => /\ written' = MaterialUniforms
                   /\ << uniforms'["material.ambientColor"],
                         uniforms'["material.ambientStrength"],
                         uniforms'["material.diffuseColor"],
                         uniforms'["material.specularColor"],
                         uniforms'["material.shininess"] >>
                        = MaterialValues(FirstDefined(lastCall'.tag))
                   /\ \A n \in UniformNames \ MaterialUniforms :
                         uniforms'[n] = uniforms[n] ]_vars

C8_Witness ==
    /\ lastCall.op = "SetShaderMaterial"
    /\ lastCall.tag = "glassy"
    /\ Len(m_objectMaterials) = 2
    /\ m_objectMaterials[1].tag = "wood"
    /\ m_objectMaterials[2] = screenMaterial
    /\ written = MaterialUniforms
    /\ uniforms["material.shininess"] = 850

\* C9: when materials are defined and none carries the tag, FindMaterial
\* leaves the caller's material as it was and SetShaderMaterial leaves the
\* five material uniforms as they were
C9_MissKeepsMaterial ==
    [][ (Len(m_objectMaterials) > 0 /\ ~Defined(lastCall'.tag))
        => /\ Called("FindMaterial")
                => lastCall'.out = lastCall'.args
           /\ (Called("SetShaderMaterial") /\ m_pShaderManager # NULL)
                => \A n \in MaterialUniforms :
                      uniforms'[n] = uniforms[n] ]_vars

----------------------------------------------------------------------------
(* Properties of the model matrix (SpecTransform) *)

\* M * (p, 1)
Apply(M, p) ==
    << M[1][1] * p[1] + M[1][2] * p[2] + M[1][3] * p[3] + M[1][4],
       M[2][1] * p[1] + M[2][2] * p[2] + M[2][3] * p[3] + M[2][4],
       M[3][1] * p[1] + M[3][2] * p[2] + M[3][3] * p[3] + M[3][4] >>

\* a point scaled, turned about one axis, moved
Scaled(p, s) == << s[1] * p[1], s[2] * p[2], s[3] * p[3] >>
TurnedX(p, deg) ==
    << p[1], Cos(deg) * p[2] - Sin(deg) * p[3],
       Sin(deg) * p[2] + Cos(deg) * p[3] >>
TurnedY(p, deg) ==
    << Cos(deg) * p[1] + Sin(deg) * p[3], p[2],
       Cos(deg) * p[3] - Sin(deg) * p[1] >>
TurnedZ(p, deg) ==
    << Cos(deg) * p[1] - Sin(deg) * p[2],
       Sin(deg) * p[1] + Cos(deg) * p[2], p[3] >>
Moved(p, t) == << p[1] + t[1], p[2] + t[2], p[3] + t[3] >>

\* the origin, the unit points and a point off every axis
Points ==
    { <<0, 0, 0>>, <<1, 0, 0>>, <<0, 1, 0>>, <<0, 0, 1>>, <<1, 2, 3>> }

\* C7: with a shader manager, the model uniform after SetTransformations
\* maps a point as scaling it, turning it about Z, then Y, then X, and moving
\* it; scale (2,1,1) and translation (3,0,0) take (1,0,0) to (5,0,0), and a
\* turn of 180 degrees about X alone negates the Y and Z of every point
C7_ModelMatrix ==
    (lastCall.op = "SetTransformations" /\ m_pShaderManager # NULL)
    => LET scaleXYZ == lastCall.args[1]
           X == lastCall.args[2]
           Y == lastCall.args[3]
           Z == lastCall.args[4]
           positionXYZ == lastCall.args[5]
           model == uniforms[g_ModelName]
       IN  /\ model[4] = <<0, 0, 0, 1>>
           /\ \A p \in Points :
                 Apply(model, p)
                   = Moved(TurnedX(TurnedY(TurnedZ(Scaled(p, scaleXYZ), Z),
                                           Y), X), positionXYZ)
           /\ lastCall.args = << <<2, 1, 1>>, 0, 0, 0, <<3, 0, 0>> >>
                => Apply(model, <<1, 0, 0>>) = <<5, 0, 0>>
           /\ lastCall.args = << <<1, 1, 1>>, 180, 0, 0, <<0, 0, 0>> >>
                => \A p \in Points :
                      Apply(model, p) = << p[1], -p[2], -p[3] >>

\* a call that scales unevenly, turns about two axes and moves
C7_Witness ==
    /\ lastCall.op = "SetTransformations"
    /\ m_pShaderManager # NULL
    /\ lastCall.args = << <<1, 2, 3>>, 90, 0, 90, <<3, 0, 0>> >>
    /\ Apply(uniforms[g_ModelName], <<1, 0, 0>>) = <<3, 0, 1>>

----------------------------------------------------------------------------
(* Properties of the render pass (SpecScene) *)

\* the uniforms a draw call reads: those of a textured object when
\* bUseTexture is set, those of a flat-colour object otherwise
Consumed(draw) ==
    { g_ModelName, g_UseTextureName }
    \cup (IF draw.useTexture = 1
          THEN { g_TextureValueName, "UVscale" } \cup MaterialUniforms
          ELSE { g_ColorValueName })

\* the step is an object routine of RenderScene that reached its draw call,
\* with a shader manager and the materials of the scene defined
Drew ==
    /\ Called("RenderScene")
    /\ ~crashed'
    /\ m_pShaderManager # NULL
    /\ Len(m_objectMaterials) > 0

\* C10 as stated: an object routine writes, before its draw call, every
\* uniform the draw call of the object before it consumed
C10_OverwritesPrevious ==
    [][ (Drew /\ lastDraw # NoDraw)
        => Consumed(lastDraw) \subseteq lastDraw'.written ]_vars

\* C10 amended: an object routine writes, before its draw call, every
\* uniform its own draw call consumes
C10_WritesOwn ==
    [][ Drew => Consumed(lastDraw') \subseteq lastDraw'.written ]_vars

\* the flat-colour mouse is drawn after the textured monitor stand
C10_Witness ==
    /\ m_pShaderManager # NULL
    /\ Len(m_objectMaterials) > 0
    /\ lastDraw.object = "Mouse"
    /\ prevDraw.object = "MonitorStand"
    /\ prevDraw.useTexture = 1
    /\ lastDraw.useTexture = 0
    /\ lastDraw.written
         = { g_ModelName, g_UseTextureName, g_ColorValueName }

\* the draw calls of ShapeMeshes the scene uses
Meshes ==
    { "DrawPlaneMesh", "DrawBoxMesh", "DrawTaperedCylinderMesh",
      "DrawTorusMesh", "DrawSphereMesh" }

\* the step is an object routine of RenderScene that returned
Rendered == Called("RenderScene") /\ ~crashed'

\* C11: an object routine that returns has called SetTransformations first,
\* then either SetShaderColor alone or SetShaderTexture, SetShaderMaterial
\* and SetTextureUVScale (each once, in some order), and then made its one
\* draw call, as its last step
C11_RoutineProtocol ==
    [][ Rendered
        => LET calls == lastDraw'.calls
               n == Len(calls)
               middle == { calls[i] : i \in 2..(n - 1) }
           IN  /\ n \in {3, 5}
               /\ calls[1] = "SetTransformations"
               /\ \/ n = 3 /\ middle = { "SetShaderColor" }
                  \/ n = 5 /\ middle = { "SetShaderTexture",
                                         "SetShaderMaterial",
                                         "SetTextureUVScale" }
               /\ calls[n] \in Meshes
               /\ calls[n] = lastDraw'.mesh
               /\ \A i \in 1..(n - 1) : calls[i] \notin Meshes ]_vars

\* the plane of a second frame is drawn after the last book of the first
C11_Witness ==
    /\ lastDraw.object = "Plane"
    /\ lastDraw.calls
         = << "SetTransformations", "SetShaderMaterial", "SetShaderTexture",
              "SetTextureUVScale", "DrawPlaneMesh" >>
    /\ prevDraw.object = "Book2"
    /\ prevDraw.calls
         = << "SetTransformations", "SetShaderColor", "DrawBoxMesh" >>

\* the objects of the scene and their meshes, in the order of a frame
FrameObjects ==
    << "Plane", "MugBody", "MugHandle", "MonitorScreen", "MonitorBase",
       "MonitorStand", "Mouse", "Keyboard", "Book1", "Book2" >>
FrameMeshes ==
    << "DrawPlaneMesh", "DrawTaperedCylinderMesh", "DrawTorusMesh",
       "DrawBoxMesh", "DrawTaperedCylinderMesh", "DrawBoxMesh",
       "DrawSphereMesh", "DrawBoxMesh", "DrawBoxMesh", "DrawBoxMesh" >>

\* C12: a RenderScene call whose routines return runs the ten objects in
\* the fixed order, one draw call each with the mesh of the object, nothing
\* else runs in between, and the texture and material registries stay as
\* they were
C12_RenderSceneOrder ==
    [][ /\ renderPos # 0 => Called("RenderScene")
        /\ Rendered
             => /\ renderPos' = (renderPos + 1) % 10
                /\ lastDraw'.object = FrameObjects[renderPos + 1]
                /\ frame' = SubSeq(FrameMeshes, 1, renderPos + 1)
                /\ renderPos' = 0 => Len(frame') = 10
                /\ m_textureIDs' = m_textureIDs
                /\ m_loadedTextures' = m_loadedTextures
                /\ m_objectMaterials' = m_objectMaterials ]_vars

\* a whole frame after a scene setup
C12_Witness ==
    /\ renderPos = 0
    /\ frame = FrameMeshes
    /\ lastDraw.object = "Book2"
    /\ prevDraw.object = "Book1"
    /\ m_loadedTextures = 6
    /\ Len(m_objectMaterials) = 5

\* the scene files that decode to an image CreateGLTexture registers
GoodFiles ==
    { k \in 1..Len(SceneTextures) : files[SceneTextures[k].file] \in {3, 4} }

\* C13: PrepareScene registers the scene textures that load and then binds:
\* when it returns (as when BindGLTextures returns) the texture of every
\* slot i below the entry count is bound on texture unit i, the last slot's
\* unit is the active one, and no draw call was made
C13_BindAfterLoads ==
    [][ (Called("PrepareScene") \/ Called("BindGLTextures"))
        => /\ \A i \in 0..(m_loadedTextures' - 1) :
                 glUnits'[i] = m_textureIDs'[i + 1].ID
           /\ m_loadedTextures' > 0 => glActive' = m_loadedTextures' - 1
           /\ Called("PrepareScene")
                => m_loadedTextures'
                     = m_loadedTextures + Cardinality(GoodFiles)
           /\ UNCHANGED sceneVars ]_vars

\* the six textures of the scene, each bound on the unit of its slot
C13_Witness ==
    /\ lastCall.op = "PrepareScene"
    /\ m_loadedTextures = 6
    /\ \A i \in 0..5 : glUnits[i] = m_textureIDs[i + 1].ID
    /\ \A i \in 0..5 : \A j \in 0..5 : i # j => glUnits[i] # glUnits[j]
    /\ m_textureIDs[6].tag = "plane"
    /\ glActive = 5
    /\ lastDraw = NoDraw

\* every texture file of the scene decodes to an RGB or RGBA image
AllLoaded == \A f \in SceneFiles : files[f] \in {3, 4}

\* C16: after a PrepareScene whose six loads succeeded, every lookup an
\* object routine of RenderScene makes succeeds: a texture tag resolves to a
\* slot in 0..5 and a material tag is the tag of a defined material
C16_LookupsSucceed ==
    [][ (Rendered /\ AllLoaded /\ Len(m_objectMaterials) > 0)
        => \A i \in 1..Len(lastDraw'.lookups) :
              LET made == lastDraw'.lookups[i]
              IN  IF made.registry = "texture"
                  THEN made.result \in 0..5
                  ELSE Defined(made.tag) /\ made.result = 1 ]_vars

\* the monitor base has looked up its texture and its material
C16_Witness ==
    /\ AllLoaded
    /\ lastDraw.object = "MonitorBase"
    /\ lastDraw.lookups
         = << [ registry |-> "texture", tag |-> "base", result |-> 4 ],
              [ registry |-> "material", tag |-> "metal", result |-> 1 ] >>
    /\ uniforms[g_TextureValueName] = 4
    /\ uniforms["material.shininess"] = 220

----------------------------------------------------------------------------
(* Properties of the registry as a whole (Spec, SpecLoads) *)

\* C14: the registry never holds more entries than there are texture units,
\* so that every slot index is below 16
C14_SlotsBelowUnits ==
    /\ m_loadedTextures <= MaxTextureUnits
    /\ Len(m_textureIDs) <= MaxTextureUnits

\* C15: no two entries of the texture registry carry the same tag
C15_UniqueTags ==
    \A i \in 1..m_loadedTextures : \A j \in 1..m_loadedTextures :
        i # j => m_textureIDs[i].tag # m_textureIDs[j].tag

\* C17: when CreateGLTexture has returned, no decoded pixel buffer is
\* allocated
C17_BuffersReleased == heapImages = 0

\* C18: after DestroyGLTextures, and after the destructor, no texture that
\* was allocated before is allocated, and none was allocated by the teardown
C18_TeardownFrees ==
    [][ (Called("DestroyGLTextures") \/ Called("~SceneManager"))
        => /\ glTextures' \cap glTextures = {}
           /\ glTextures' \subseteq glTextures ]_vars

----------------------------------------------------------------------------
(* Properties of the null shader manager (SpecMaterial) *)

\* the operations that publish uniforms (SetupSceneLights within PrepareScene)
Publishing ==
    { "SetTransformations", "SetShaderColor", "SetShaderTexture",
      "SetTextureUVScale", "SetShaderMaterial", "PrepareScene" }

\* C19: without a shader manager, an operation that publishes uniforms
\* writes nothing and does not use the missing shader manager
C19_NullSinkNoOp ==
    [][ (m_pShaderManager = NULL /\ lastCall'.op \in Publishing)
        => /\ ~crashed'
           /\ written' = {}
           /\ uniforms' = uniforms ]_vars

----------------------------------------------------------------------------
(* Properties of the view (SpecView) *)

\* C20: the view matrix and the viewPosition uniform PrepareSceneView
\* publishes are computed from the same camera position, the position the
\* keys held left the camera at
C20_ViewFromPosition ==
    [][ (Called("PrepareSceneView") /\ viewSink # NULL)
        => /\ viewUniforms'[g_ViewName].eye = viewUniforms'["viewPosition"]
           /\ g_pCamera'
                = ProcessKeyboardEvents(
                      ViewState(g_pCamera, bOrthographicProjection,
                                shouldClose),
                      lastCall'.args[1], gDeltaTime').camera ]_vars

====
